---- MODULE Spec2Model ----
(***************************************************************************)
(* Offline-resilience subsystem of the Ramadan Iftar Fund Tracker:         *)
(* the IndexedDB offline queue (services/offlineQueue.ts), the API client  *)
(* (services/dbService.ts), the App.tsx handlers, refreshData and          *)
(* processOfflineQueue, and the worker's POST/PUT/DELETE/GET handlers.      *)
(*                                                                         *)
(* Granularity.  An IndexedDB transaction is atomic.  A network call made  *)
(* by a user handler or by one replay of the drain is one step whose       *)
(* outcome (ok, fail, lost) is chosen by the environment; the server       *)
(* effect takes place at that step.  A network read of refreshData is two  *)
(* steps (issued, completed), and a drain is one step per await of its     *)
(* loop, so drains, refreshes, user calls and connectivity changes         *)
(* interleave.                                                             *)
(***************************************************************************)
EXTENDS Integers, Sequences, FiniteSets, TLC

\* ---------------------------------------------------------------- bounds
MaxAdds == 2        \* user add calls (client-generated ids)
MaxClock == 1       \* timestamps range over 0..MaxClock
MaxDrains == 2      \* processOfflineQueue runs that may be in progress together (Spec)
MaxAppDrains == 1   \* the same, under SpecWrite and SpecRead
MaxRefresh == 2     \* stand-alone refreshData calls that may be in flight together
MaxRows == 2        \* creates that may reach the server
MaxSessions == 2    \* sessions the worker creates
MaxDay == 31        \* the worker's clock runs over days 0..MaxDay
MaxTod == 1         \* times of day the worker's clock tells apart: 0..MaxTod

\* ---------------------------------------------------------------- constants
CurrentYear == 2026
NoUser == "nobody"
User1 == "u1"
User2 == "u2"
Users == {User1, User2}
\* createSession: expiresAt = Date.now() + 30 days
SessionDays == 30
\* localStorage.getItem of a key that was never set; an entry is <<list>>.
Null == <<>>
Years == {CurrentYear - 1, CurrentYear}
RecordTypes == {"donation", "expense"}
ClientIds == 1..MaxAdds
DrainIds == 1..(IF MaxDrains > MaxAppDrains THEN MaxDrains ELSE MaxAppDrains)
NetOutcomes == {"ok", "fail", "lost"}

VARIABLES
  online,        \* navigator.onLine
  user,          \* signed-in user (authContext)
  selectedYear,  \* App state selectedYear
  store,         \* IndexedDB object store 'actions' (keyPath 'id')
  server,        \* D1 tables donations and expenses (rows carry their type)
  nextServerId,  \* number of ids the worker has generated so far, plus one
  donations,     \* App state donations
  expenses,      \* App state expenses
  cache,         \* localStorage iftar_cache_{uid}_{year}_{type}
  pendingCount,  \* App state pendingCount
  drains,        \* processOfflineQueue runs in progress
  refreshing,    \* stand-alone refreshData calls awaiting the network, per year
  usedIds,       \* ids crypto.randomUUID() has returned in the client
  offlineToast,  \* App state offlineToast: the OfflineError message is shown
  sessions,      \* D1 table sessions: rows [id, userId, expiresAt]
  nextSession,   \* number of session ids the worker has generated so far, plus one
  wnow,          \* the worker's clock: <<day, time of day>>
  resp,          \* the last request the worker answered, with its response
  swState,       \* lifecycle of the service worker: parsed, installed, activated
  swCaches,      \* CacheStorage of the origin: per existing cache, the stored URLs
  swLast         \* the last fetch event, with how it was answered

\* The state of the React app and of its queue and cache.
clientVars == <<online, user, selectedYear, store, donations, expenses, cache,
                pendingCount, drains, refreshing, usedIds, offlineToast>>

\* The worker's sessions, clock and last response.
workerVars == <<sessions, nextSession, wnow, resp>>

\* The service worker and its caches.
swVars == <<swState, swCaches, swLast>>

vars == <<online, user, selectedYear, store, server, nextServerId,
          donations, expenses, cache, pendingCount, drains, refreshing,
          usedIds, offlineToast, sessions, nextSession, wnow, resp,
          swState, swCaches, swLast>>

\* ---------------------------------------------------------------- data
\* The worker's crypto.randomUUID(): the n-th id it generates.  Client and
\* server ids are independent random UUIDs, hence never equal.
ServerId(n) == 0 - n

QueueType(t) == IF t = "donation" THEN "ADD_DONATION" ELSE "ADD_EXPENSE"

RecordTypeOf(qt) == IF qt = "ADD_DONATION" THEN "donation" ELSE "expense"

\* apiData: the body of the POST; the record's id is not part of it.
ApiData(rec) == [type |-> rec.type, year |-> rec.year, content |-> rec.content, rev |-> rec.rev]

\* A mutant of PostRow: the row is stored under the client's id.
PostRow_clientId(rec, sid) == [id |-> rec.id, type |-> rec.type, year |-> rec.year,
                               content |-> rec.content, rev |-> rec.rev]

\* The row the worker inserts for a create of rec: INSERT with
\* id = crypto.randomUUID() and the fields of the body.
PostRow(rec, sid) == [id |-> sid] @@ ApiData(rec)

\* A mutant of GetRecords: both list calls read the same table.
GetRecords_anyType(rows, y, t) == {r \in rows : r.year = y}

\* getDonations / getExpenses: the rows of the user for the year and type.
GetRecords(rows, y, t) == {r \in rows : r.year = y /\ r.type = t}

\* ---------------------------------------------------------------- offlineQueue
\* IDBObjectStore.getAll(): the records in ascending key order.
RECURSIVE KeyOrder(_)
KeyOrder(S) ==
  IF S = {} THEN <<>>
  ELSE LET a == CHOOSE x \in S : \A y \in S : x.id <= y.id
       IN <<a>> \o KeyOrder(S \ {a})

\* Insert a into a sequence sorted by timestamp, after every element whose
\* timestamp is not greater (Array.prototype.sort is stable).
RECURSIVE InsertStable(_, _)
InsertStable(a, seq) ==
  IF seq = <<>> THEN <<a>>
  ELSE IF a.timestamp < Head(seq).timestamp THEN <<a>> \o seq
  ELSE <<Head(seq)>> \o InsertStable(a, Tail(seq))

RECURSIVE SortByTimestamp(_)
SortByTimestamp(seq) ==
  IF seq = <<>> THEN <<>>
  ELSE InsertStable(seq[Len(seq)], SortByTimestamp(SubSeq(seq, 1, Len(seq) - 1)))

\* offlineQueue.getAll
GetAll(S) == SortByTimestamp(KeyOrder(S))

\* What the loop of processOfflineQueue reads of a queued action: its id,
\* type and payload (the timestamp is used by the sort of getAll only).
Replayed(a) == [id |-> a.id, type |-> a.type, payload |-> a.payload]

Snapshot(S) == [i \in 1..Cardinality(S) |-> Replayed(GetAll(S)[i])]

\* offlineQueue.count
Count(S) == Cardinality(S)

\* A mutant of Remove: when no action has the id, the first action in key
\* order is deleted.
Remove_orFirst(S, id) ==
  IF \E a \in S : a.id = id THEN {a \in S : a.id # id}
  ELSE {a \in S : \E b \in S : b.id < a.id}

\* offlineQueue.remove: IDBObjectStore.delete(id)
Remove(S, id) == {a \in S : a.id # id}

\* The action offlineQueue.enqueue builds.
QueuedAction(qt, payload, now) ==
  [id |-> payload.id, type |-> qt, payload |-> payload, timestamp |-> now]

\* IDBObjectStore.add fails with a ConstraintError when the key exists.
CanEnqueue(S, payload) == \A a \in S : a.id # payload.id

\* How the promise of enqueue settles.  tx.oncomplete resolves it; tx.onerror
\* rejects it, which is where the error event of the failed add request
\* bubbles to.  A transaction whose request succeeded and that aborts at
\* commit fires only 'abort', for which no handler is registered, so the
\* promise stays pending.
EnqueueSettles(S, payload, sto) ==
  IF ~CanEnqueue(S, payload) THEN "rejected"
  ELSE IF sto = "abort" THEN "pending"
  ELSE "resolved"

\* Date.now() in enqueue.  Timestamps are only compared with each other by
\* getAll, so they are kept relative: the first action of an empty queue is
\* stamped 0, and a later one falls into the millisecond of the latest
\* queued action or into a later one.
RECURSIVE MaxTimestamp(_)
MaxTimestamp(S) ==
  IF S = {} THEN 0
  ELSE LET a == CHOOSE x \in S : TRUE
           m == MaxTimestamp(S \ {a})
       IN IF a.timestamp > m THEN a.timestamp ELSE m

Timestamps(S) ==
  IF S = {} THEN {0}
  ELSE {n \in {MaxTimestamp(S), MaxTimestamp(S) + 1} : n <= MaxClock}

\* offlineQueue.enqueue on success
Enqueue(S, qt, payload, now) == S \cup {QueuedAction(qt, payload, now)}

\* ---------------------------------------------------------------- dbService
\* The outcomes the network may have for a write issued now: none while the
\* browser is offline (no call is made); ok, fail (the request never reached
\* the worker) or lost (the worker ran, the response did not arrive).
\* While offline the add goes to enqueue, whose transaction either takes its
\* course (none: it commits, or its add request fails on the key) or aborts
\* at commit (abort: quota or I/O failure).
NetChoices ==
  IF ~online THEN {"none", "abort"}
  ELSE IF nextServerId <= MaxRows THEN NetOutcomes ELSE {"fail"}

NetChoicesMutate == IF ~online THEN {"none"} ELSE NetOutcomes

\* A mutant of DbAdd: the offline branch returns the queued record without
\* persisting the action.
DbAdd_noEnqueue(t, rec, now, net) ==
  IF ~online
  THEN [store |-> store, server |-> server, sid |-> nextServerId,
        net |-> "none", outcome |-> IF net = "abort" THEN "pending" ELSE "queued"]
  ELSE IF net = "fail"
  THEN [store |-> store, server |-> server, sid |-> nextServerId,
        net |-> "fail", outcome |-> "NetworkError"]
  ELSE [store |-> store,
        server |-> server \cup {PostRow(rec, ServerId(nextServerId))},
        sid |-> nextServerId + 1,
        net |-> net,
        outcome |-> IF net = "ok" THEN "confirmed" ELSE "NetworkError"]

\* dbService.addDonation / addExpense for record rec of type t, with the
\* network behaving as net.  Yields the queue, the server tables, the
\* worker's id counter, the network activity and the call's outcome.
DbAdd(t, rec, now, net) ==
  IF ~online
  THEN [store |-> IF EnqueueSettles(store, rec, net) = "resolved"
                  THEN Enqueue(store, QueueType(t), rec, now) ELSE store,
        server |-> server, sid |-> nextServerId, net |-> "none",
        outcome |-> CASE EnqueueSettles(store, rec, net) = "resolved" -> "queued"
                      [] EnqueueSettles(store, rec, net) = "rejected" -> "StorageError"
                      [] OTHER -> "pending"]
  ELSE IF net = "fail"
  THEN [store |-> store, server |-> server, sid |-> nextServerId,
        net |-> "fail", outcome |-> "NetworkError"]
  ELSE [store |-> store,
        server |-> server \cup {PostRow(rec, ServerId(nextServerId))},
        sid |-> nextServerId + 1,
        net |-> net,
        outcome |-> IF net = "ok" THEN "confirmed" ELSE "NetworkError"]

\* The worker's PUT: UPDATE ... WHERE id = body.id (in the table of type t).
PutRows(rows, t, rec) ==
  {IF r.id = rec.id /\ r.type = t THEN [id |-> r.id] @@ ApiData(rec) ELSE r : r \in rows}

\* The worker's DELETE: DELETE ... WHERE id = body.id (in the table of type t).
DeleteRows(rows, t, id) == {r \in rows : ~(r.id = id /\ r.type = t)}

\* A mutant of DbUpdate: the offline guard is missing.
DbUpdate_noGuard(t, rec, net) ==
  IF net \in {"fail", "none"}
  THEN [server |-> server, net |-> "fail", outcome |-> "NetworkError"]
  ELSE [server |-> PutRows(server, t, rec), net |-> net,
        outcome |-> IF net = "ok" THEN "ok" ELSE "NetworkError"]

\* dbService.updateDonation / updateExpense
DbUpdate(t, rec, net) ==
  IF ~online
  THEN [server |-> server, net |-> "none", outcome |-> "OfflineError"]
  ELSE IF net = "fail"
  THEN [server |-> server, net |-> "fail", outcome |-> "NetworkError"]
  ELSE [server |-> PutRows(server, t, rec), net |-> net,
        outcome |-> IF net = "ok" THEN "ok" ELSE "NetworkError"]

\* dbService.deleteDonation / deleteExpense
DbDelete(t, id, net) ==
  IF ~online
  THEN [server |-> server, net |-> "none", outcome |-> "OfflineError"]
  ELSE IF net = "fail"
  THEN [server |-> server, net |-> "fail", outcome |-> "NetworkError"]
  ELSE [server |-> DeleteRows(server, t, id), net |-> net,
        outcome |-> IF net = "ok" THEN "ok" ELSE "NetworkError"]

\* ---------------------------------------------------------------- App state
\* A mutant of IsReadOnly: the handlers do not look at the selected year.
IsReadOnly_never == selectedYear \notin Years

IsReadOnly == selectedYear # CurrentYear

List(t) == IF t = "donation" THEN donations ELSE expenses

\* setDonations / setExpenses of the list of type t, the other list kept.
SetList(t, new) ==
  /\ donations' = IF t = "donation" THEN new ELSE donations
  /\ expenses' = IF t = "expense" THEN new ELSE expenses

CacheKey(y, t) == <<y, t>>

CacheKeys == Years \X RecordTypes

\* A mutant of Seeded: the lists are not seeded from the cache.
Seeded_never(t, y) == List(t)

\* refreshData step 1: the cached list when the key has an entry.
Seeded(t, y) == IF cache[CacheKey(y, t)] = Null THEN List(t) ELSE cache[CacheKey(y, t)][1]

\* A drain that is not running.  A running drain holds its snapshot (queue),
\* the index of the next action, the year its refreshData closure captured,
\* and how its adds went so far (status): "confirmed" when the network
\* confirmed every one, "offline" when one of them took the offline branch
\* of the add, "failed" when one threw after a network call and none took
\* the offline branch.
IdleDrain == [pc |-> "idle", queue |-> <<>>, idx |-> 0, status |-> "confirmed",
              year |-> CurrentYear]

\* The status of a drain after an add with result r.
NextStatus(status, r) ==
  IF status = "offline" \/ r.net = "none" THEN "offline"
  ELSE IF status = "failed" \/ r.outcome # "confirmed" THEN "failed"
  ELSE "confirmed"

\* ---------------------------------------------------------------- worker clock
\* An instant is <<day, time of day>>.  The clock is read on the day the
\* first session is created, the day after, SessionDays later, and on the
\* last day.
Instants == {0, 1, SessionDays, MaxDay} \X (0..MaxTod)

Later(a, b) == a[1] > b[1] \/ (a[1] = b[1] /\ a[2] > b[2])

\* new Date(t + n days)
AddDays(t, n) == <<t[1] + n, t[2]>>

\* The character codes of 'T' and ' '.
CharT == 84
CharSpace == 32

\* Date.prototype.toISOString(): "YYYY-MM-DD" "T" "HH:MM:SS.sssZ".  The date
\* and the time are fixed-width digit strings, which compare as the numbers
\* they spell, so each is one element of the sequence.
ToISOString(t) == <<t[1], CharT, t[2]>>

\* SQLite datetime("now"): "YYYY-MM-DD" " " "HH:MM:SS".
SqlDatetime(t) == <<t[1], CharSpace, t[2]>>

\* SQLite's > on two TEXT values (BINARY collation): the first differing
\* byte decides, and a proper prefix is the smaller one.
RECURSIVE TextGreater(_, _)
TextGreater(a, b) ==
  IF a = <<>> THEN FALSE
  ELSE IF b = <<>> THEN TRUE
  ELSE IF Head(a) # Head(b) THEN Head(a) > Head(b)
  ELSE TextGreater(Tail(a), Tail(b))

\* No request answered yet.
NoResp == [status |-> 0, user |-> NoUser, method |-> "", route |-> "", id |-> 0, rows |-> {}]

\* ---------------------------------------------------------------- service worker
\* CACHE_VERSION, and the name an earlier deployment used.
CACHE_VERSION == "iftar-fund-v4"
OldVersion == "iftar-fund-v3"

\* A pathname is the sequence of its segments; <<>> is "/".
SHELL_URLS == {<<>>, <<"index.html">>, <<"manifest.json">>}

\* Pathnames of requests: the shell, a bundle file, an in-app route and API
\* routes.
Paths == SHELL_URLS \cup {<<"assets", "app.js">>, <<"donations">>,
                          <<"api", "donations">>, <<"api", "auth", "verify">>}

\* What a same-origin GET may be stored for.
AssetPaths == {p \in Paths : p = <<>> \/ p[1] # "api"}

\* No fetch event yet.
NoFetch == [origin |-> "", path |-> <<>>, method |-> "", mode |-> "", from |-> ""]

\* The service worker of the running app: installed and activated, with
\* the shell in its cache.
InitSW ==
  /\ swState = "activated"
  /\ swCaches = [n \in {CACHE_VERSION} |-> SHELL_URLS]
  /\ swLast = NoFetch

\* The worker as the browser's session starts: the signed-in user's session
\* has just been created by the OAuth callback.
InitWorker ==
  /\ wnow = <<0, 0>>
  /\ sessions = {[id |-> 1, userId |-> User1, expiresAt |-> ToISOString(AddDays(<<0, 0>>, SessionDays))]}
  /\ nextSession = 2
  /\ resp = NoResp

Init ==
  /\ InitWorker
  /\ InitSW
  /\ online \in BOOLEAN
  /\ user = User1
  /\ selectedYear = CurrentYear
  /\ store = {}
  /\ server = {}
  /\ nextServerId = 1
  /\ donations = {}
  /\ expenses = {}
  /\ cache = [k \in CacheKeys |-> Null]
  /\ pendingCount = 0
  /\ drains = [d \in DrainIds |-> IdleDrain]
  /\ refreshing = [y \in Years |-> 0]
  /\ usedIds = {}
  /\ offlineToast = FALSE

\* ---------------------------------------------------------------- environment
\* window 'offline' event
GoOffline ==
  /\ online
  /\ online' = FALSE
  /\ UNCHANGED <<user, selectedYear, store, server, nextServerId, donations,
                 expenses, cache, pendingCount, drains, refreshing, usedIds, offlineToast>>
  /\ UNCHANGED <<workerVars, swVars>>

\* ---------------------------------------------------------------- handlers
\* newDonation / newExpense: the form's data (content: what the user entered
\* in the n-th add) with a fresh id and the selected year.
NewRecord(t, id) ==
  [id |-> id, type |-> t, year |-> selectedYear, content |-> Cardinality(usedIds) + 1, rev |-> 0]

\* A mutant of HandleAdd: a confirmed add appends the record to the cache
\* entry of its year and type.
HandleAdd_cachesRecord(t, id, now, net) ==
  /\ user # NoUser
  /\ ~IsReadOnly
  /\ id \in ClientIds \ usedIds
  /\ now \in Timestamps(store)
  /\ net \in NetChoices
  /\ LET rec == NewRecord(t, id)
         r == DbAdd(t, rec, now, net)
         k == CacheKey(selectedYear, t)
     IN /\ store' = r.store
        /\ server' = r.server
        /\ nextServerId' = r.sid
        /\ usedIds' = usedIds \cup {id}
        /\ IF r.outcome \in {"confirmed", "queued"}
           THEN SetList(t, List(t) \cup {rec})
           ELSE UNCHANGED <<donations, expenses>>
        /\ cache' = IF r.outcome = "confirmed"
                    THEN [cache EXCEPT ![k] = IF @ = Null THEN <<{rec}>> ELSE <<@[1] \cup {rec}>>]
                    ELSE cache
        /\ pendingCount' = IF r.outcome = "queued" THEN Count(r.store) ELSE pendingCount
  /\ UNCHANGED <<online, user, selectedYear, drains, refreshing, offlineToast>>
  /\ UNCHANGED <<workerVars, swVars>>

\* handleAddDonation / handleAddExpense with a fresh crypto.randomUUID() id.
HandleAdd(t, id, now, net) ==
  /\ user # NoUser
  /\ ~IsReadOnly
  /\ id \in ClientIds \ usedIds
  /\ now \in Timestamps(store)
  /\ net \in NetChoices
  /\ LET rec == NewRecord(t, id)
         r == DbAdd(t, rec, now, net)
     IN /\ store' = r.store
        /\ server' = r.server
        /\ nextServerId' = r.sid
        /\ usedIds' = usedIds \cup {id}
        /\ IF r.outcome \in {"confirmed", "queued"}
           THEN SetList(t, List(t) \cup {rec})
           ELSE UNCHANGED <<donations, expenses>>
        /\ pendingCount' = IF r.outcome = "queued" THEN Count(r.store) ELSE pendingCount
  /\ UNCHANGED <<online, user, selectedYear, cache, drains, refreshing, offlineToast>>
  /\ UNCHANGED <<workerVars, swVars>>

\* handleUpdateDonation / handleUpdateExpense of a listed record.
HandleUpdate(t, rec, net) ==
  /\ user # NoUser
  /\ ~IsReadOnly
  /\ rec \in List(t)
  /\ net \in NetChoicesMutate
  /\ LET updated == [rec EXCEPT !.rev = 1]
         r == DbUpdate(t, updated, net)
     IN /\ server' = r.server
        /\ offlineToast' = (offlineToast \/ r.outcome = "OfflineError")
        /\ IF r.outcome = "ok"
           THEN SetList(t, {IF x.id = updated.id THEN updated ELSE x : x \in List(t)})
           ELSE UNCHANGED <<donations, expenses>>
  /\ UNCHANGED <<online, user, selectedYear, store, nextServerId, cache,
                 pendingCount, drains, refreshing, usedIds>>
  /\ UNCHANGED <<workerVars, swVars>>

\* handleDeleteDonation / handleDeleteExpense of a listed record.
HandleDelete(t, rec, net) ==
  /\ user # NoUser
  /\ ~IsReadOnly
  /\ rec \in List(t)
  /\ net \in NetChoicesMutate
  /\ LET r == DbDelete(t, rec.id, net)
     IN /\ server' = r.server
        /\ offlineToast' = (offlineToast \/ r.outcome = "OfflineError")
        /\ IF r.outcome = "ok"
           THEN SetList(t, {x \in List(t) : x.id # rec.id})
           ELSE UNCHANGED <<donations, expenses>>
  /\ UNCHANGED <<online, user, selectedYear, store, nextServerId, cache,
                 pendingCount, drains, refreshing, usedIds>>
  /\ UNCHANGED <<workerVars, swVars>>

\* The toast's timer expires (the toast is shown for 4 seconds).
DismissToast ==
  /\ offlineToast
  /\ offlineToast' = FALSE
  /\ UNCHANGED <<online, user, selectedYear, store, server, nextServerId, donations,
                 expenses, cache, pendingCount, drains, refreshing, usedIds>>
  /\ UNCHANGED <<workerVars, swVars>>

\* ---------------------------------------------------------------- refreshData
\* refreshData step 3 on success: both lists and both cache entries of the
\* year are replaced by what the worker returns.
ApplyFetched(y) ==
  /\ donations' = GetRecords(server, y, "donation")
  /\ expenses' = GetRecords(server, y, "expense")
  /\ cache' = [cache EXCEPT ![CacheKey(y, "donation")] = <<GetRecords(server, y, "donation")>>,
                            ![CacheKey(y, "expense")] = <<GetRecords(server, y, "expense")>>]

\* refreshData step 1: seed both lists from the cache of the year.
SeedFromCache(y) ==
  /\ donations' = Seeded("donation", y)
  /\ expenses' = Seeded("expense", y)

\* A mutant of IssuesRead: a refresh of a year that already has a read in
\* flight does not issue another one.
IssuesRead_deduplicated(y) == online /\ refreshing[y] = 0

\* A mutant of IssuesRead: the network read is issued without looking at
\* navigator.onLine.
IssuesRead_always(y) == y \in Years

\* refreshData step 2: the network read is issued exactly when the browser
\* is online.
IssuesRead(y) == online

\* refreshData called by the data effect or by handleCategoryChange:
\* steps 1 and 2, and the network read is issued when online.
RefreshData ==
  /\ user # NoUser
  /\ IssuesRead(selectedYear) => refreshing[selectedYear] < MaxRefresh
  /\ SeedFromCache(selectedYear)
  /\ refreshing' = IF IssuesRead(selectedYear)
                   THEN [refreshing EXCEPT ![selectedYear] = @ + 1]
                   ELSE refreshing
  /\ UNCHANGED <<online, user, selectedYear, store, server, nextServerId, cache,
                 pendingCount, drains, usedIds, offlineToast>>
  /\ UNCHANGED <<workerVars, swVars>>

\* The network read of a stand-alone refreshData for year y completes.
RefreshDone(y, net) ==
  /\ refreshing[y] > 0
  /\ net \in {"ok", "fail"}
  /\ refreshing' = [refreshing EXCEPT ![y] = @ - 1]
  /\ IF net = "ok" THEN ApplyFetched(y) ELSE UNCHANGED <<donations, expenses, cache>>
  /\ UNCHANGED <<online, user, selectedYear, store, server, nextServerId,
                 pendingCount, drains, usedIds, offlineToast>>
  /\ UNCHANGED <<workerVars, swVars>>

\* ---------------------------------------------------------------- processOfflineQueue
\* A mutant of AfterReplay: the action is removed whether or not the add threw.
AfterReplay_always(r, id) == Remove(r.store, id)

\* The queue after one replay: remove(action.id) runs only when the add
\* did not throw.
AfterReplay(r, id) ==
  IF r.outcome \in {"confirmed", "queued"} THEN Remove(r.store, id) ELSE r.store

\* A mutant of NextIdx: the loop ends at the first add that throws.
NextIdx_failFast(idx, len, r) ==
  IF r.outcome \in {"confirmed", "queued"} THEN idx + 1 ELSE len + 1

\* for (const action of queue): the catch block is inside the loop body, so
\* the next iteration follows whatever the add did.
NextIdx(idx, len, r) == idx + 1

\* window 'online' event: handleOnline calls processOfflineQueue, which
\* takes its snapshot of the queue.  At most n drains run together.
GoOnline(n) ==
  /\ ~online
  /\ online' = TRUE
  /\ IF user = NoUser
     THEN UNCHANGED drains
     ELSE \E d \in 1..n :
            /\ drains[d].pc = "idle"
            /\ \A e \in 1..n : e < d => drains[e].pc # "idle"
            /\ drains' = [drains EXCEPT ![d] =
                            [pc |-> "replay", queue |-> Snapshot(store), idx |-> 1,
                             status |-> "confirmed", year |-> selectedYear]]
  /\ UNCHANGED <<user, selectedYear, store, server, nextServerId, donations,
                 expenses, cache, pendingCount, refreshing, usedIds, offlineToast>>
  /\ UNCHANGED <<workerVars, swVars>>

\* One pass of the loop of drain d: the add of the next snapshotted action,
\* then its removal when the add did not throw.  When the add never settles
\* the run stays suspended at its await for good: it takes no further step.
DrainReplay(d, now, net) ==
  /\ drains[d].pc = "replay"
  /\ drains[d].idx <= Len(drains[d].queue)
  /\ now = MaxTimestamp(store)
  /\ net \in NetChoices
  /\ LET action == drains[d].queue[drains[d].idx]
         r == DbAdd(RecordTypeOf(action.type), action.payload, now, net)
     IN /\ store' = AfterReplay(r, action.id)
        /\ server' = r.server
        /\ nextServerId' = r.sid
        /\ drains' = IF r.outcome = "pending"
                     THEN [drains EXCEPT ![d] = IdleDrain]
                     ELSE [drains EXCEPT ![d].idx = NextIdx(@, Len(drains[d].queue), r),
                                         ![d].status = NextStatus(@, r)]
  /\ UNCHANGED <<online, user, selectedYear, donations, expenses, cache,
                 pendingCount, refreshing, usedIds, offlineToast>>
  /\ UNCHANGED <<workerVars, swVars>>

\* A mutant of DrainFinish: the drain does not update the pending count.
DrainFinish_keepsBadge(d) ==
  /\ drains[d].pc = "replay"
  /\ drains[d].idx > Len(drains[d].queue)
  /\ SeedFromCache(drains[d].year)
  /\ drains' = IF IssuesRead(drains[d].year)
               THEN [drains EXCEPT ![d].pc = "refresh"]
               ELSE [drains EXCEPT ![d] = IdleDrain]
  /\ UNCHANGED <<online, user, selectedYear, store, server, nextServerId, cache,
                 pendingCount, refreshing, usedIds, offlineToast>>
  /\ UNCHANGED <<workerVars, swVars>>

\* A mutant of DrainFinish: refreshData is called only after a drain that
\* had work and whose creates were all confirmed.
DrainFinish_onlyAfterSuccess(d) ==
  /\ drains[d].pc = "replay"
  /\ drains[d].idx > Len(drains[d].queue)
  /\ pendingCount' = Count(store)
  /\ IF Len(drains[d].queue) > 0 /\ drains[d].status = "confirmed"
     THEN /\ SeedFromCache(drains[d].year)
          /\ drains' = IF IssuesRead(drains[d].year)
                       THEN [drains EXCEPT ![d].pc = "refresh"]
                       ELSE [drains EXCEPT ![d] = IdleDrain]
     ELSE /\ UNCHANGED <<donations, expenses>>
          /\ drains' = [drains EXCEPT ![d] = IdleDrain]
  /\ UNCHANGED <<online, user, selectedYear, store, server, nextServerId, cache,
                 refreshing, usedIds, offlineToast>>
  /\ UNCHANGED <<workerVars, swVars>>

\* The end of the loop of drain d: count, setPendingCount, and the seeding
\* and connectivity check of refreshData.
DrainFinish(d) ==
  /\ drains[d].pc = "replay"
  /\ drains[d].idx > Len(drains[d].queue)
  /\ pendingCount' = Count(store)
  /\ SeedFromCache(drains[d].year)
  /\ drains' = IF IssuesRead(drains[d].year)
               THEN [drains EXCEPT ![d].pc = "refresh"]
               ELSE [drains EXCEPT ![d] = IdleDrain]
  /\ UNCHANGED <<online, user, selectedYear, store, server, nextServerId, cache,
                 refreshing, usedIds, offlineToast>>
  /\ UNCHANGED <<workerVars, swVars>>

\* The network read of the refreshData that ends drain d completes.
DrainRefreshDone(d, net) ==
  /\ drains[d].pc = "refresh"
  /\ net \in {"ok", "fail"}
  /\ drains' = [drains EXCEPT ![d] = IdleDrain]
  /\ IF net = "ok" THEN ApplyFetched(drains[d].year)
     ELSE UNCHANGED <<donations, expenses, cache>>
  /\ UNCHANGED <<online, user, selectedYear, store, server, nextServerId,
                 pendingCount, refreshing, usedIds, offlineToast>>
  /\ UNCHANGED <<workerVars, swVars>>

\* ---------------------------------------------------------------- year selector
\* The user selects year y: setSelectedYear(y), and the data effect, whose
\* dependency refreshData changed with selectedYear, calls refreshData.
SetYear(y) ==
  /\ user # NoUser
  /\ y \in Years \ {selectedYear}
  /\ IssuesRead(y) => refreshing[y] < MaxRefresh
  /\ selectedYear' = y
  /\ SeedFromCache(y)
  /\ refreshing' = IF IssuesRead(y) THEN [refreshing EXCEPT ![y] = @ + 1] ELSE refreshing
  /\ UNCHANGED <<online, user, store, server, nextServerId, cache,
                 pendingCount, drains, usedIds, offlineToast>>
  /\ UNCHANGED <<workerVars, swVars>>

\* ---------------------------------------------------------------- page reload
\* What the mount's refreshData leaves in the list of type t: the lists
\* start empty (useState([])), then step 1 seeds them from the cache of the
\* current year (selectedYear starts as currentYear).
Booted(t) ==
  IF cache[CacheKey(CurrentYear, t)] = Null THEN {} ELSE cache[CacheKey(CurrentYear, t)][1]

\* A mutant of Restart: the queue is kept in memory only and is lost with
\* the page.
Restart_volatileQueue(on) ==
  /\ user # NoUser
  /\ online' = on
  /\ store' = {}
  /\ selectedYear' = CurrentYear
  /\ donations' = Booted("donation")
  /\ expenses' = Booted("expense")
  /\ pendingCount' = 0
  /\ drains' = [d \in DrainIds |-> IdleDrain]
  /\ refreshing' = [y \in Years |-> IF on /\ y = CurrentYear THEN 1 ELSE 0]
  /\ offlineToast' = FALSE
  /\ UNCHANGED <<user, server, nextServerId, cache, usedIds>>
  /\ UNCHANGED <<workerVars, swVars>>

\* The page is reloaded (or killed and opened again) with the browser then
\* online or not (on).  Only persisted storage is kept: the IndexedDB queue,
\* the localStorage cache and session (authContext restores the user), and
\* the server.  The drains and reads of the old page are gone.  The mount
\* effects run: offlineQueue.count().then(setPendingCount) and the data
\* effect's refreshData (seed from the cache, network read when online).
Restart(on) ==
  /\ user # NoUser
  /\ online' = on
  /\ selectedYear' = CurrentYear
  /\ donations' = Booted("donation")
  /\ expenses' = Booted("expense")
  /\ pendingCount' = Count(store)
  /\ drains' = [d \in DrainIds |-> IdleDrain]
  /\ refreshing' = [y \in Years |-> IF on /\ y = CurrentYear THEN 1 ELSE 0]
  /\ offlineToast' = FALSE
  /\ UNCHANGED <<user, store, server, nextServerId, cache, usedIds>>
  /\ UNCHANGED <<workerVars, swVars>>

\* ---------------------------------------------------------------- specification
\* A record of last year's campaign, created when that year was current.
LastYearRow ==
  [id |-> ServerId(0), type |-> "donation", year |-> CurrentYear - 1, content |-> 0, rev |-> 0]

\* The state after construction for a user who has a record of last year.
InitHistory ==
  /\ InitWorker
  /\ InitSW
  /\ online \in BOOLEAN
  /\ user = User1
  /\ selectedYear = CurrentYear
  /\ store = {}
  /\ server = {LastYearRow}
  /\ nextServerId = 1
  /\ donations = {}
  /\ expenses = {}
  /\ cache = [k \in CacheKeys |-> Null]
  /\ pendingCount = 0
  /\ drains = [d \in DrainIds |-> IdleDrain]
  /\ refreshing = [y \in Years |-> 0]
  /\ usedIds = {}
  /\ offlineToast = FALSE

\* Connectivity, the add handlers and the drain, with at most n drains
\* in progress together.
SyncNext(n) ==
  \/ GoOffline
  \/ GoOnline(n)
  \/ \E t \in RecordTypes, id \in ClientIds, now \in 0..MaxClock, net \in NetOutcomes \cup {"none"} :
       HandleAdd(t, id, now, net)
  \/ \E d \in DrainIds, now \in 0..MaxClock, net \in NetOutcomes \cup {"none"} :
       DrainReplay(d, now, net)
  \/ \E d \in DrainIds : DrainFinish(d)
  \/ \E d \in DrainIds, net \in {"ok", "fail"} : DrainRefreshDone(d, net)

\* The update and delete handlers.
WriteNext ==
  \/ \E t \in RecordTypes, rec \in donations \cup expenses, net \in NetOutcomes \cup {"none"} :
       HandleUpdate(t, rec, net)
  \/ \E t \in RecordTypes, rec \in donations \cup expenses, net \in NetOutcomes \cup {"none"} :
       HandleDelete(t, rec, net)
  \/ DismissToast

\* refreshData called outside the drain.
ReadNext ==
  \/ RefreshData
  \/ \E y \in Years, net \in {"ok", "fail"} : RefreshDone(y, net)

Next == SyncNext(MaxDrains)

Spec == Init /\ [][Next]_vars

NextWrite == SyncNext(MaxAppDrains) \/ WriteNext

SpecWrite == Init /\ [][NextWrite]_vars

NextRead == SyncNext(MaxAppDrains) \/ ReadNext

SpecRead == Init /\ [][NextRead]_vars

\* Page reloads: connectivity, adds and drains, reloads, and the completion
\* of the mount's network read.
NextRestart ==
  \/ SyncNext(MaxAppDrains)
  \/ \E on \in BOOLEAN : Restart(on)
  \/ \E y \in Years, net \in {"ok", "fail"} : RefreshDone(y, net)

SpecRestart == Init /\ [][NextRestart]_vars

\* Storage failures: connectivity, adds and drains, where the transaction
\* of an enqueue may abort at commit.
NextStorage ==
  \/ SyncNext(MaxAppDrains)
  \/ \E t \in RecordTypes, id \in ClientIds, now \in 0..MaxClock : HandleAdd(t, id, now, "abort")
  \/ \E d \in DrainIds, now \in 0..MaxClock : DrainReplay(d, now, "abort")

SpecStorage == Init /\ [][NextStorage]_vars

\* The year selector in a session that does not regain connectivity: the
\* add, update and delete handlers, year changes, and the completion of the
\* reads the year changes issue.
NextYear ==
  \/ GoOffline
  \/ \E t \in RecordTypes, id \in ClientIds, now \in 0..MaxClock, net \in NetOutcomes \cup {"none"} :
       HandleAdd(t, id, now, net)
  \/ \E t \in RecordTypes, rec \in donations \cup expenses, net \in NetOutcomes \cup {"none"} :
       HandleUpdate(t, rec, net)
  \/ \E t \in RecordTypes, rec \in donations \cup expenses, net \in NetOutcomes \cup {"none"} :
       HandleDelete(t, rec, net)
  \/ \E y \in Years : SetYear(y)
  \/ \E y \in Years, net \in {"ok", "fail"} : RefreshDone(y, net)

SpecYear == InitHistory /\ [][NextYear]_vars

\* ---------------------------------------------------------------- worker
NoToken == 0

\* Bearer tokens a request may carry: none, an id createSession has or will
\* have generated, and one it never generates.
Tokens == 0..(MaxSessions + 1)

Methods == {"OPTIONS", "GET", "POST", "PUT", "DELETE", "PATCH"}

DataRoutes == {"/api/donations", "/api/expenses"}

Routes == {"/", "/api/auth/logout", "/api/auth/verify", "/api/categories",
           "/api/user/preferences", "/api/unknown"} \cup DataRoutes

RouteType(route) == IF route = "/api/donations" THEN "donation" ELSE "expense"

\* Request bodies and query strings: the id of the record, the year (0 in a
\* GET without ?year=) and the remaining fields.
Bodies == [id : {ServerId(n) : n \in 1..MaxRows}, year : Years \cup {0}, rev : 0..1]

Response(status, u, req, rows) ==
  [status |-> status, user |-> u, method |-> req.method, route |-> req.route,
   id |-> req.body.id, rows |-> rows]

\* verifySession: the user of the session the Bearer token names, if its
\* expires_at is greater than datetime("now").
VerifySession(tok) ==
  IF tok = NoToken THEN NoUser
  ELSE LET found == {s \in sessions : s.id = tok /\ TextGreater(s.expiresAt, SqlDatetime(wnow))}
       IN  IF found = {} THEN NoUser ELSE (CHOOSE s \in found : TRUE).userId

\* createSession
CreateSession(u) ==
  [id |-> nextSession, userId |-> u, expiresAt |-> ToISOString(AddDays(wnow, SessionDays))]

\* A mutant of Owned: the WHERE clause has no user_id condition.
Owned_anyUser(rows, u, t, id) == {r \in rows : r.id = id /\ r.type = t}

\* WHERE id = ? AND user_id = ? on the table of type t.
Owned(rows, u, t, id) == {r \in rows : r.id = id /\ r.type = t /\ r.userId = u}

\* SELECT * FROM <table> WHERE user_id = ? [AND year = ?]
SelectRows(rows, u, t, y) ==
  {r \in rows : r.userId = u /\ r.type = t /\ (y # 0 => r.year = y)}

\* The row INSERT stores for user u.
InsertRow(u, t, body, sid) ==
  [userId |-> u] @@ PostRow([type |-> t, year |-> body.year, content |-> 0, rev |-> body.rev], sid)

\* handleDonations / handleExpenses: the table after the request and the response.
HandleRecords(t, u, req) ==
  LET body == req.body IN
  CASE req.method = "GET" ->
         [server |-> server, sid |-> nextServerId,
          resp |-> Response(200, u, req, SelectRows(server, u, t, body.year))]
    [] req.method = "POST" ->
         LET row == InsertRow(u, t, body, ServerId(nextServerId))
         IN  [server |-> server \cup {row}, sid |-> nextServerId + 1,
              resp |-> Response(201, u, req, {row})]
    [] req.method = "PUT" ->
         LET hit == Owned(server, u, t, body.id)
         IN  [server |-> (server \ hit) \cup
                         {[r EXCEPT !.year = body.year, !.rev = body.rev] : r \in hit},
              sid |-> nextServerId,
              resp |-> Response(200, u, req, {})]
    [] req.method = "DELETE" ->
         [server |-> server \ Owned(server, u, t, body.id), sid |-> nextServerId,
          resp |-> Response(200, u, req, {})]
    [] OTHER ->
         [server |-> server, sid |-> nextServerId, resp |-> Response(405, u, req, {})]

\* handleCategories and handleUserPreferences, whose tables are not modelled:
\* the status of the response.
OtherStatus(req) ==
  IF req.route = "/api/categories"
  THEN IF req.method \in {"GET", "POST", "PUT", "DELETE"} THEN 200 ELSE 405
  ELSE IF req.route = "/api/user/preferences"
  THEN IF req.method \in {"GET", "PUT"} THEN 200 ELSE 405
  ELSE 404

\* The worker's fetch handler, for every route but the OAuth callback.
Fetch(req) ==
  LET u == VerifySession(req.token) IN
  /\ req.route \in DataRoutes /\ req.method = "POST" => nextServerId <= MaxRows
  /\ req.method \in {"POST", "PUT"} => req.body.year # 0
  /\ IF req.method = "OPTIONS"
     THEN /\ resp' = Response(200, NoUser, req, {})
          /\ UNCHANGED <<sessions, server, nextServerId>>
     ELSE IF req.route = "/"
     THEN /\ resp' = Response(404, NoUser, req, {})
          /\ UNCHANGED <<sessions, server, nextServerId>>
     ELSE IF u = NoUser
     THEN /\ resp' = Response(401, NoUser, req, {})
          /\ UNCHANGED <<sessions, server, nextServerId>>
     ELSE IF req.route = "/api/auth/logout"
     THEN /\ sessions' = {s \in sessions : s.id # req.token}
          /\ resp' = Response(200, u, req, {})
          /\ UNCHANGED <<server, nextServerId>>
     ELSE IF req.route = "/api/auth/verify"
     THEN /\ resp' = Response(200, VerifySession(req.token), req, {})
          /\ UNCHANGED <<sessions, server, nextServerId>>
     ELSE IF req.route \in DataRoutes
     THEN LET r == HandleRecords(RouteType(req.route), u, req)
          IN  /\ server' = r.server
              /\ nextServerId' = r.sid
              /\ resp' = r.resp
              /\ UNCHANGED sessions
     ELSE /\ resp' = Response(OtherStatus(req), u, req, {})
          /\ UNCHANGED <<sessions, server, nextServerId>>
  /\ UNCHANGED <<wnow, nextSession>>
  /\ UNCHANGED <<clientVars, swVars>>

\* handleGoogleCallback, after Google has identified user u: a new session.
HandleGoogleCallback(u) ==
  /\ nextSession <= MaxSessions
  /\ sessions' = sessions \cup {CreateSession(u)}
  /\ nextSession' = nextSession + 1
  /\ resp' = [status |-> 200, user |-> u, method |-> "POST",
              route |-> "/api/auth/callback", id |-> nextSession, rows |-> {}]
  /\ UNCHANGED <<wnow, server, nextServerId>>
  /\ UNCHANGED <<clientVars, swVars>>

\* Time passes.
Advance(t) ==
  /\ Later(t, wnow)
  /\ wnow' = t
  /\ UNCHANGED <<sessions, nextSession, resp, server, nextServerId>>
  /\ UNCHANGED <<clientVars, swVars>>

Requests == [token : Tokens, method : Methods, route : Routes, body : Bodies]

\* The requests of the session checks: every token and route, one body, and
\* the methods that answer a preflight, read, create and delete.
AuthBody == [id |-> ServerId(1), year |-> CurrentYear, rev |-> 0]

AuthRequests ==
  [token : Tokens, method : {"OPTIONS", "GET", "POST", "DELETE"}, route : Routes,
   body : {AuthBody}]

\* The data requests of two users: the data routes, with every body.
DataRequests ==
  [token : Tokens, method : {"GET", "POST", "PUT", "DELETE"}, route : DataRoutes, body : Bodies]

InitOnline == Init /\ online

\* Sessions: requests with any token while sessions are created, deleted and
\* expire.
NextAuth ==
  \/ \E req \in AuthRequests : Fetch(req)
  \/ HandleGoogleCallback(User1)
  \/ \E t \in Instants : Advance(t)

SpecAuth == InitOnline /\ [][NextAuth]_vars

\* Data: two users sign in and read and write records.
NextWorker ==
  \/ \E req \in DataRequests : Fetch(req)
  \/ \E u \in Users : HandleGoogleCallback(u)

SpecWorker == InitOnline /\ [][NextWorker]_vars

\* ---------------------------------------------------------------- service worker events
\* A mutant of IsApi: no pathname is taken for an API call.
IsApi_never(path) == path # path

\* url.pathname.startsWith('/api/')
IsApi(path) == Len(path) >= 2 /\ path[1] = "api"

\* The early returns of the fetch listener: the event is left to the
\* browser, which goes to the network.
PassesThrough(req) ==
  \/ req.origin # "same"
  \/ IsApi(req.path)
  \/ req.method # "GET"

\* caches.match(request): some cache holds a response stored for the URL
\* (a request that is not a GET matches nothing).
CachesMatch(method, path) ==
  method = "GET" /\ \E n \in DOMAIN swCaches : path \in swCaches[n]

\* caches.open(name).then(cache => cache.put(request, response)): open
\* creates the cache when it does not exist.
CachePut(name, path) ==
  [n \in DOMAIN swCaches \cup {name} |->
     IF n # name THEN swCaches[n]
     ELSE IF n \in DOMAIN swCaches THEN swCaches[n] \cup {path} ELSE {path}]

\* The page is opened with a new sw.js: the browser starts from the caches
\* an earlier deployment left (the old shell and whatever it stored), and
\* the new service worker has not been installed.
InitDeploy ==
  /\ InitWorker
  /\ swState = "parsed"
  /\ \/ swCaches = <<>>
     \/ \E extra \in SUBSET (AssetPaths \ SHELL_URLS) :
          swCaches = [n \in {OldVersion} |-> SHELL_URLS \cup extra]
  /\ swLast = NoFetch
  /\ online = TRUE
  /\ user = User1
  /\ selectedYear = CurrentYear
  /\ store = {}
  /\ server = {}
  /\ nextServerId = 1
  /\ donations = {}
  /\ expenses = {}
  /\ cache = [k \in CacheKeys |-> Null]
  /\ pendingCount = 0
  /\ drains = [d \in DrainIds |-> IdleDrain]
  /\ refreshing = [y \in Years |-> 0]
  /\ usedIds = {}
  /\ offlineToast = FALSE

\* install: cache.addAll(SHELL_URLS) into the cache named CACHE_VERSION.
\* addAll stores nothing when one of the requests fails, and the
\* installation is then tried again at the next registration.
Install(ok) ==
  /\ swState = "parsed"
  /\ IF ok
     THEN /\ swCaches' = [n \in DOMAIN swCaches \cup {CACHE_VERSION} |->
                            IF n # CACHE_VERSION THEN swCaches[n] ELSE SHELL_URLS]
          /\ swState' = "installed"
     ELSE /\ swCaches' = [n \in DOMAIN swCaches \cup {CACHE_VERSION} |->
                            IF n # CACHE_VERSION THEN swCaches[n] ELSE {}]
          /\ swState' = "parsed"
  /\ UNCHANGED <<swLast, server, nextServerId>>
  /\ UNCHANGED <<clientVars, workerVars>>

\* activate (at once, after skipWaiting): every cache whose name is not
\* CACHE_VERSION is deleted.
Activate ==
  /\ swState = "installed"
  /\ swState' = "activated"
  /\ swCaches' = [n \in DOMAIN swCaches \cap {CACHE_VERSION} |-> swCaches[n]]
  /\ UNCHANGED <<swLast, server, nextServerId>>
  /\ UNCHANGED <<clientVars, workerVars>>

\* The fetch listener of the activated service worker for request req, the
\* network answering as net (ok: a 200; notok: another status; fail: the
\* fetch rejects).
FetchEvent(req, net) ==
  /\ swState = "activated"
  /\ IF PassesThrough(req)
     THEN /\ swLast' = [req EXCEPT !.from = "browser"]
          /\ UNCHANGED swCaches
     ELSE IF net = "ok"
     THEN /\ swLast' = [req EXCEPT !.from = "network"]
          /\ swCaches' = CachePut(CACHE_VERSION, req.path)
     ELSE IF net = "notok"
     THEN /\ swLast' = [req EXCEPT !.from = "network"]
          /\ UNCHANGED swCaches
     ELSE /\ swLast' = [req EXCEPT !.from =
                          IF CachesMatch(req.method, req.path) THEN "cache"
                          ELSE IF req.mode = "navigate" /\ CachesMatch("GET", <<"index.html">>)
                          THEN "cache"
                          ELSE "none"]
          /\ UNCHANGED swCaches
  /\ UNCHANGED <<swState, server, nextServerId>>
  /\ UNCHANGED <<clientVars, workerVars>>

FetchRequests ==
  [origin : {"same", "cross"}, path : Paths, method : {"GET", "POST"},
   mode : {"navigate", "cors"}, from : {""}]

NextSW ==
  \/ \E ok \in BOOLEAN : Install(ok)
  \/ Activate
  \/ \E req \in FetchRequests, net \in {"ok", "notok", "fail"} : FetchEvent(req, net)

SpecSW == InitDeploy /\ [][NextSW]_vars

TypeOK ==
  /\ online \in BOOLEAN
  /\ selectedYear \in Years
  /\ \A a \in store : a.id \in usedIds /\ a.payload.id = a.id /\ a.timestamp \in 0..MaxClock
  /\ \A a, b \in store : a.id = b.id => a = b
  /\ pendingCount \in 0..MaxAdds
  /\ \A d \in DrainIds : drains[d].pc \in {"idle", "replay", "refresh"}
  /\ \A y \in Years : refreshing[y] \in 0..MaxRefresh
  /\ nextServerId \in 1..(MaxRows + 1)

\* ---------------------------------------------------------------- claims
\* The snapshotted action drain d replays next.
Current(d) == drains[d].queue[drains[d].idx]

Running == {d \in DrainIds : drains[d].pc # "idle"}

\* The actions of drain d's snapshot that are still in the queue.
StillQueued(d) ==
  {i \in 1..Len(drains[d].queue) : \E a \in store : a.id = drains[d].queue[i].id}

\* C1: FIFO replay.  In a drain whose every create so far was confirmed by
\* the network, the creates the network has received (those of the actions
\* before idx, in this order) are in the order in which the actions were
\* enqueued (content numbers the user's adds).
C1_FifoReplay ==
  \A d \in DrainIds :
    drains[d].pc # "idle" /\ drains[d].status = "confirmed" =>
      \A i, j \in 1..(drains[d].idx - 1) :
        i < j => drains[d].queue[i].payload.content < drains[d].queue[j].payload.content

\* C2: a queued mutation leaves the queue only in a step in which the
\* network confirms the create of that mutation, and a replay that takes the
\* offline branch of the add (the browser is offline) leaves the queue as
\* it is.
C2_RemovedOnlyAfterSuccess ==
  [][ /\ \A a \in store :
           (\A b \in store' : b.id # a.id) =>
              \E d \in DrainIds :
                 /\ drains[d].pc = "replay"
                 /\ drains[d].idx <= Len(drains[d].queue)
                 /\ Current(d).id = a.id
                 /\ online
                 /\ drains'[d].idx = drains[d].idx + 1
                 /\ \E r \in server' \ server : r = PostRow(a.payload, r.id)
                 /\ drains'[d].status # "failed" \/ drains[d].status = "failed"
      /\ \A d \in DrainIds, now \in 0..MaxClock :
           DrainReplay(d, now, "none") => store' = store
    ]_vars

\* C2 witness: the loop of a drain has ended, one of its adds took the
\* offline branch, and every mutation of its snapshot is still queued.
C2_Witness ==
  \E d \in DrainIds :
    /\ drains[d].pc = "replay"
    /\ drains[d].idx > Len(drains[d].queue)
    /\ Len(drains[d].queue) > 0
    /\ drains[d].status = "offline"
    /\ StillQueued(d) = 1..Len(drains[d].queue)

\* C3: an add attempted while online whose network call fails ends with the
\* payload in the queue and with the record in the list (a queued outcome).
C3_FailedWriteIsQueued ==
  [][ \A t \in RecordTypes, id \in ClientIds, now \in 0..MaxClock, net \in {"fail", "lost"} :
        HandleAdd(t, id, now, net) =>
          /\ \E a \in store' : a.id = id /\ a.payload = NewRecord(t, id)
          /\ NewRecord(t, id) \in (donations' \cup expenses')
    ]_vars

\* C5: at no time are two drains in progress together.
C5_DrainNotReentrant == Cardinality(Running) <= 1

\* C6 as claimed: when a queued mutation with client id X is drained
\* successfully, the remote store holds a record with primary key X.
C6_SameIdAfterSync ==
  [][ \A d \in DrainIds, now \in 0..MaxClock :
        DrainReplay(d, now, "ok") => \E r \in server' : r.id = Current(d).id
    ]_vars

\* C6 as amended: when a queued mutation with client id X is drained
\* successfully, the remote store holds its fields under a key the worker
\* generated, no row has key X, and the refresh that ends a drain leaves no
\* client-generated id in the lists.
C6_ServerAssignsId ==
  [][ /\ \A d \in DrainIds, now \in 0..MaxClock :
           DrainReplay(d, now, "ok") =>
             /\ \E r \in server' \ server :
                  /\ r.id = ServerId(nextServerId)
                  /\ ApiData(r) = ApiData(Current(d).payload)
             /\ \A r \in server' : r.id \notin ClientIds
      /\ \A d \in DrainIds :
           DrainRefreshDone(d, "ok") =>
             \A x \in donations' \cup expenses' : x.id \notin ClientIds
    ]_vars

\* C6 witness: a drain has had its first mutation confirmed and the remote
\* store holds the mutation's fields under another key.
C6_Witness ==
  \E d \in DrainIds :
    /\ drains[d].pc # "idle"
    /\ drains[d].idx > 1
    /\ drains[d].status = "confirmed"
    /\ \E r \in server :
         /\ ApiData(r) = ApiData(drains[d].queue[1].payload)
         /\ r.id # drains[d].queue[1].id

\* C8: an add made while offline makes no network call, adds exactly one
\* action carrying the record and its id to the queue, appends the record to
\* its list and takes the handler's _queued branch (the badge is recounted).
C8_OfflineAddQueues ==
  [][ \A t \in RecordTypes, id \in ClientIds, now \in 0..MaxClock, net \in NetOutcomes \cup {"none"} :
        HandleAdd(t, id, now, net) /\ ~online =>
          /\ net = "none"
          /\ server' = server /\ nextServerId' = nextServerId
          /\ \A a \in store : a.id # id
          /\ store' = store \cup {[id |-> id, type |-> QueueType(t),
                                   payload |-> NewRecord(t, id), timestamp |-> now]}
          /\ Cardinality(store') = Cardinality(store) + 1
          /\ NewRecord(t, id) \in (IF t = "donation" THEN donations' ELSE expenses')
          /\ pendingCount' = Cardinality(store')
    ]_vars

\* C8 witness: offline, a queued action whose record is in its list, and
\* the badge counts the queue.
C8_Witness ==
  /\ ~online
  /\ \E a \in store : a.payload \in donations \cup expenses /\ a.payload.id = a.id
  /\ pendingCount = Cardinality(store)
  /\ server = {}

\* C9: when the refresh that ends a drain completes and every create of the
\* drain was confirmed, the lists and the cache entries of the year are the
\* server's lists, and each drained record is in them exactly once.
C9_ConsistentAfterDrain ==
  [][ \A d \in DrainIds :
        DrainRefreshDone(d, "ok") /\ drains[d].status = "confirmed" =>
          /\ donations' = GetRecords(server', drains[d].year, "donation")
          /\ expenses' = GetRecords(server', drains[d].year, "expense")
          /\ cache'[CacheKey(drains[d].year, "donation")] = <<donations'>>
          /\ cache'[CacheKey(drains[d].year, "expense")] = <<expenses'>>
          /\ \A i \in 1..Len(drains[d].queue) :
               Cardinality({x \in donations' \cup expenses' :
                              ApiData(x) = ApiData(drains[d].queue[i].payload)}) = 1
    ]_vars

\* C4: an update or delete attempted while offline throws OfflineError (the
\* handler shows the offline toast, which a network failure does not), makes
\* no network call, and leaves the queue, the remote store and the lists as
\* they were.
C4_OfflineWritesBlocked ==
  [][ /\ ~online =>
           \A t \in RecordTypes : \A rec \in List(t), net \in NetOutcomes \cup {"none"} :
             HandleUpdate(t, rec, net) \/ HandleDelete(t, rec, net) =>
               /\ net = "none"
               /\ DbUpdate(t, rec, net).outcome = "OfflineError"
               /\ DbDelete(t, rec.id, net).outcome = "OfflineError"
               /\ offlineToast'
               /\ store' = store /\ Cardinality(store') = Cardinality(store)
               /\ server' = server
               /\ donations' = donations /\ expenses' = expenses
      /\ online /\ server' = server =>
           \A t \in RecordTypes : \A rec \in List(t) :
             HandleUpdate(t, rec, "fail") \/ HandleDelete(t, rec, "fail") =>
               /\ DbUpdate(t, rec, "fail").outcome = "NetworkError"
               /\ offlineToast' = offlineToast
    ]_vars

\* C4 witness: offline with a non-empty queue, the toast of a blocked
\* update or delete is shown, and the record it was attempted on is listed
\* unchanged, as the remote store holds it.
C4_Witness ==
  /\ ~online
  /\ offlineToast
  /\ store # {}
  /\ pendingCount = Cardinality(store)
  /\ \E x \in donations \cup expenses : x \in server /\ x.rev = 0

\* The network list calls of year y in flight: those of stand-alone
\* refreshes and those of the refreshes that end drains.
InFlight(y) ==
  refreshing[y] + Cardinality({d \in DrainIds : drains[d].pc = "refresh" /\ drains[d].year = y})

C10_OfflineRead ==
  [][ RefreshData /\ ~online =>
        /\ \A y \in Years : InFlight(y)' = InFlight(y)
        /\ cache' = cache
        /\ donations' = IF cache[CacheKey(selectedYear, "donation")] = Null
                        THEN donations
                        ELSE cache[CacheKey(selectedYear, "donation")][1]
        /\ expenses' = IF cache[CacheKey(selectedYear, "expense")] = Null
                       THEN expenses
                       ELSE cache[CacheKey(selectedYear, "expense")][1]
    ]_vars

\* C10 witness: offline with nothing in flight, the lists are the cached
\* values of the year, and a queued record is not among them (the seed
\* replaced the list it had been appended to).
C10_Witness ==
  /\ ~online
  /\ \A y \in Years : InFlight(y) = 0
  /\ \A d \in DrainIds : drains[d].pc = "idle"
  /\ cache[CacheKey(selectedYear, "donation")] = <<donations>>
  /\ cache[CacheKey(selectedYear, "expense")] = <<expenses>>
  /\ donations \cup expenses # {}
  /\ \E a \in store : a.payload \notin donations \cup expenses

\* What refreshData's step 1 leaves in the list of type t for year y: the
\* cached value of the key, or the list as it was when the key has no entry.
CachedOrKept(t, y) ==
  IF cache[<<y, t>>] = <<>> THEN (IF t = "donation" THEN donations ELSE expenses)
  ELSE cache[<<y, t>>][1]

\* C11: a fetch made while online whose network read fails ends with the
\* cached value of the key in the lists (the seed of step 1; the failed
\* read changes nothing), leaves the cache as it was, and does not flip the
\* connectivity state.
C11_FailedReadKeepsCache ==
  [][ /\ RefreshData /\ online =>
           /\ donations' = CachedOrKept("donation", selectedYear)
           /\ expenses' = CachedOrKept("expense", selectedYear)
           /\ cache' = cache /\ online' = online
      /\ \A d \in DrainIds :
           DrainFinish(d) /\ online =>
             /\ donations' = CachedOrKept("donation", drains[d].year)
             /\ expenses' = CachedOrKept("expense", drains[d].year)
             /\ cache' = cache /\ online' = online
      /\ (\/ \E y \in Years : RefreshDone(y, "fail") /\ refreshing'[y] = refreshing[y] - 1
          \/ \E d \in DrainIds : DrainRefreshDone(d, "fail") /\ drains[d].pc = "refresh") =>
           /\ donations' = donations /\ expenses' = expenses
           /\ cache' = cache /\ online' = online
    ]_vars

\* C11 witness: online with no read in flight, the lists are the cached
\* values of the year although the server holds a record the cache entry
\* lacks: the last read did not bring the server's list.
C11_Witness ==
  /\ online
  /\ \A y \in Years : InFlight(y) = 0
  /\ \A d \in DrainIds : drains[d].pc = "idle"
  /\ cache[CacheKey(selectedYear, "donation")] = <<donations>>
  /\ cache[CacheKey(selectedYear, "expense")] = <<expenses>>
  /\ donations \cup expenses # {}
  /\ \E r \in server : r.year = selectedYear /\ r \notin donations \cup expenses

\* C12: a drain that found the queue empty issues no create, and when the
\* server's list of a key is what the cache entry already holds, the
\* refresh that ends the drain leaves the entry with the same content; the
\* entries of other years are not written.
C12_EmptyDrainIdempotent ==
  [][ \A d \in DrainIds :
        drains[d].pc # "idle" /\ drains[d].queue = <<>> =>
          /\ \A now \in 0..MaxClock, net \in NetOutcomes \cup {"none"} : ~DrainReplay(d, now, net)
          /\ DrainFinish(d) =>
               server' = server /\ nextServerId' = nextServerId /\ cache' = cache
          /\ DrainRefreshDone(d, "ok") =>
               /\ server' = server /\ nextServerId' = nextServerId
               /\ \A k \in CacheKeys :
                    \/ cache'[k] = cache[k]
                    \/ /\ k[1] = drains[d].year
                       /\ cache[k] # <<{r \in server : r.year = k[1] /\ r.type = k[2]}>>
    ]_vars

\* C12 witness: a drain that found the queue empty awaits its refresh while
\* the cache entries of its year hold the server's lists, which are not
\* empty (an earlier refresh wrote them).
C12_Witness ==
  \E d \in DrainIds :
    /\ drains[d].pc = "refresh"
    /\ drains[d].queue = <<>>
    /\ store = {}
    /\ server # {}
    /\ \A t \in RecordTypes :
         cache[CacheKey(drains[d].year, t)] =
           <<{r \in server : r.year = drains[d].year /\ r.type = t}>>

\* C13: a page reload keeps every cache entry and every queued mutation:
\* after it the queue and the cache are what they were, the lists show the
\* cached lists of the current year, and the badge counts the queue.
C13_SurvivesRestart ==
  [][ \A on \in BOOLEAN :
        Restart(on) =>
          /\ store' = store
          /\ cache' = cache
          /\ pendingCount' = Cardinality(store)
          /\ \A y \in Years :
               /\ cache[<<y, "donation">>] # <<>> /\ selectedYear' = y =>
                    donations' = cache[<<y, "donation">>][1]
               /\ cache[<<y, "expense">>] # <<>> /\ selectedYear' = y =>
                    expenses' = cache[<<y, "expense">>][1]
    ]_vars

\* C13 witness: the page was reloaded while online (the mount's read is in
\* flight and no drain runs) with mutations pending and a cache entry
\* written: the queue is there, the badge counts it, and the list is the
\* cached one.
C13_Witness ==
  /\ refreshing[CurrentYear] = 1
  /\ \A d \in DrainIds : drains[d].pc = "idle"
  /\ store # {}
  /\ pendingCount = Cardinality(store)
  /\ cache[CacheKey(CurrentYear, "donation")] # Null
  /\ cache[CacheKey(CurrentYear, "donation")][1] # {}
  /\ donations = cache[CacheKey(CurrentYear, "donation")][1]

\* C14: whenever an add made while offline does not persist its mutation,
\* the caller gets an error (the promise of the add rejects), the queue is
\* as it was, and the record is not reported queued (it is not listed and
\* the badge is not recounted).
C14_EnqueueFailureSurfaces ==
  [][ /\ \A t \in RecordTypes, id \in ClientIds, now \in 0..MaxClock, sto \in {"none", "abort"} :
           HandleAdd(t, id, now, sto) /\ ~online /\ (\A a \in store' : a.id # id) =>
             /\ DbAdd(t, NewRecord(t, id), now, sto).outcome = "StorageError"
             /\ store' = store
             /\ donations' = donations /\ expenses' = expenses
             /\ pendingCount' = pendingCount
      /\ \A d \in DrainIds, now \in 0..MaxClock, sto \in {"none", "abort"} :
           DrainReplay(d, now, sto) /\ ~online /\ (\E a \in store : a.id = Current(d).id) =>
             /\ DbAdd(RecordTypeOf(Current(d).type), Current(d).payload, now, sto).outcome
                  = "StorageError"
             /\ store' = store
    ]_vars

\* C15: remove(id) deletes the action with that id and no other; for an id
\* that is not in the queue it succeeds (the replay does not count as
\* failed) and leaves the queue as it is; removing the id once more changes
\* nothing.
C15_RemoveIdempotent ==
  [][ \A d \in DrainIds, now \in 0..MaxClock :
        DrainReplay(d, now, "ok") =>
          /\ store' = {a \in store : a.id # Current(d).id}
          /\ (\A a \in store : a.id # Current(d).id) =>
               /\ store' = store
               /\ drains'[d].status = drains[d].status
          /\ Remove(store', Current(d).id) = store'
    ]_vars

\* C15 witness: two drains have each had the create of the same action
\* confirmed and removed it, the second one when it was no longer in the
\* queue, while another action is still queued.
C15_Witness ==
  \E d, e \in DrainIds :
    /\ d # e
    /\ drains[d].pc = "replay" /\ drains[e].pc = "replay"
    /\ drains[d].idx = 2 /\ drains[e].idx = 2
    /\ drains[d].status = "confirmed" /\ drains[e].status = "confirmed"
    /\ drains[d].queue[1].id = drains[e].queue[1].id
    /\ store # {}
    /\ \A a \in store : a.id # drains[d].queue[1].id

\* C16: while the selected year is not the current year, the add, update
\* and delete handlers take no step: no data-service call (the server and
\* the toast of a thrown OfflineError are untouched), no enqueue, no change
\* of the lists.
C16_ReadOnlyHistory ==
  [][ selectedYear # CurrentYear =>
        /\ \A t \in RecordTypes, id \in ClientIds, now \in 0..MaxClock,
              net \in NetOutcomes \cup {"none"} : ~HandleAdd(t, id, now, net)
        /\ \A t \in RecordTypes : \A rec \in List(t), net \in NetOutcomes \cup {"none"} :
             ~HandleUpdate(t, rec, net) /\ ~HandleDelete(t, rec, net)
        /\ store' = store
        /\ server' = server
        /\ usedIds' = usedIds
        /\ offlineToast' = offlineToast
    ]_vars

\* C16 witness: last year is selected, its record is listed as the server
\* holds it, no read is in flight, and an add made in the current year
\* before is on the server: the handlers had work to do and did none of it
\* on the listed record.
C16_Witness ==
  /\ selectedYear = CurrentYear - 1
  /\ donations = {LastYearRow}
  /\ LastYearRow \in server
  /\ \E r \in server : r.year = CurrentYear
  /\ \A y \in Years : refreshing[y] = 0

\* The instant an expires_at string denotes.
ParseISO(str) == <<str[1], str[3]>>

\* The token names a stored session whose expiry lies in the future.
LiveSession(tok) == \E s \in sessions : s.id = tok /\ Later(ParseISO(s.expiresAt), wnow)

\* C17: a request to an API route other than the OAuth callback that
\* carries no Bearer token, an unknown token, the token of an expired
\* session or the token of a session logout has deleted is answered 401,
\* and it neither reads nor changes data.  The request of a step is the
\* one the response names, with each token in turn.  (Preflight requests
\* are left out: they are answered before the session is looked at.)
C17_SessionRequired ==
  [][ \A tok \in Tokens :
        LET req == [token |-> tok, method |-> resp'.method, route |-> resp'.route,
                    body |-> AuthBody]
        IN  ( /\ req \in AuthRequests
              /\ req.method # "OPTIONS"
              /\ req.route # "/"
              /\ ~LiveSession(tok)
              /\ Fetch(req) )
            => /\ resp'.status = 401
               /\ resp'.rows = {}
               /\ server' = server
               /\ sessions' = sessions
    ]_vars

\* The rows of the users other than u.
RowsOfOthers(rows, u) == {r \in rows : r.userId # u}

\* C18: a GET, POST, PUT or DELETE on /api/donations or /api/expenses made
\* with the session of one user returns only that user's rows and leaves
\* the rows of every other user, and what a GET of theirs returns, as they
\* were, whatever id the request names.
C18_UserIsolation ==
  [][ resp'.route \in DataRoutes =>
        LET u == resp'.user IN
        /\ \A r \in resp'.rows : r.userId = u
        /\ RowsOfOthers(server', u) = RowsOfOthers(server, u)
        /\ \A b \in Users \ {u}, t \in RecordTypes, y \in Years \cup {0} :
             SelectRows(server', b, t, y) = SelectRows(server, b, t, y)
    ]_vars

\* C18 witness: the second user's DELETE named the id of a row of the first
\* user, on that row's route, and was answered 200; the row is still there.
C18_Witness ==
  /\ resp.method = "DELETE"
  /\ resp.status = 200
  /\ resp.user = User2
  /\ resp.route \in DataRoutes
  /\ \E r \in server : r.id = resp.id /\ r.userId = User1 /\ r.type = RouteType(resp.route)

\* C19: in a pass of the loop of a drain whose create is not confirmed
\* (the request failed, its response was lost, or the browser was offline)
\* the queue stays as it is, and after every pass, failed or not, the drain
\* is still in its loop on the same snapshot, one position further: each
\* snapshotted mutation is attempted once, none is skipped, and the loop
\* ends only after the last one.
C19_FailureIndependence ==
  [][ /\ \A d \in DrainIds, now \in 0..MaxClock, net \in NetOutcomes \cup {"none"} :
           DrainReplay(d, now, net) =>
             /\ net # "ok" => store' = store
             /\ drains'[d].pc = "replay"
             /\ drains'[d].queue = drains[d].queue
             /\ drains'[d].idx = drains[d].idx + 1
      /\ \A d \in DrainIds :
           DrainFinish(d) => drains[d].idx = Len(drains[d].queue) + 1
      /\ \A d \in Running : \A i, j \in 1..Len(drains[d].queue) :
           i # j => drains[d].queue[i].id # drains[d].queue[j].id
    ]_vars

\* C19 witness: the loop of a drain over two mutations has ended; the
\* create of the first was not confirmed and the mutation is still queued,
\* the second, attempted after it, is on the server and out of the queue.
C19_Witness ==
  \E d \in DrainIds :
    /\ drains[d].pc = "replay"
    /\ Len(drains[d].queue) = 2
    /\ drains[d].idx = 3
    /\ drains[d].status = "failed"
    /\ StillQueued(d) = {1}
    /\ \E r \in server : r = PostRow(drains[d].queue[2].payload, r.id)
    /\ \A r \in server : r # PostRow(drains[d].queue[1].payload, r.id)
    /\ \A e \in DrainIds \ {d} : drains[e].pc = "idle"

\* The ids of the actions in the snapshot of drain d.
SnapshotIds(d) == {drains[d].queue[i].id : i \in 1..Len(drains[d].queue)}

\* C20: a drain reads the queue once: while it is in its loop its snapshot
\* does not change and each create it issues is that of a snapshotted
\* action; an action that is in the queue and not in the snapshot (it was
\* enqueued after the drain started) is still in the queue after every
\* step up to and including the end of the loop.
C20_DrainUsesSnapshot ==
  [][ \A d \in DrainIds :
        drains[d].pc = "replay" =>
          /\ drains'[d].pc = "replay" => drains'[d].queue = drains[d].queue
          /\ \A now \in 0..MaxClock, net \in NetOutcomes \cup {"none"} :
               DrainReplay(d, now, net) =>
                 \A r \in server' \ server :
                   \E i \in 1..Len(drains[d].queue) : r = PostRow(drains[d].queue[i].payload, r.id)
          /\ \A a \in store : a.id \notin SnapshotIds(d) => a \in store'
    ]_vars

\* C21: a network read completes while the browser is offline (every read
\* is issued online, so the browser went offline after it started): its
\* result is neither written to the cache nor put into the lists.
C21_StaleResultDiscarded ==
  [][ ~online =>
        /\ \A y \in Years, net \in {"ok", "fail"} :
             RefreshDone(y, net) => UNCHANGED <<donations, expenses, cache>>
        /\ \A d \in DrainIds, net \in {"ok", "fail"} :
             DrainRefreshDone(d, net) => UNCHANGED <<donations, expenses, cache>>
    ]_vars

\* The lists and the cache entries of year y hold the server's rows of y.
ShowsServer(y) ==
  /\ donations = GetRecords(server, y, "donation")
  /\ expenses = GetRecords(server, y, "expense")
  /\ cache[CacheKey(y, "donation")] = <<donations>>
  /\ cache[CacheKey(y, "expense")] = <<expenses>>

\* C22 as claimed: every drain that leaves its loop re-fetches the data of
\* its year from the network, and the drain ends with the lists and the
\* cache entries of the year overwritten by the server's rows.
C22_AlwaysRefetched ==
  [][ \A d \in DrainIds :
        /\ DrainFinish(d) => drains'[d].pc = "refresh"
        /\ \A net \in {"ok", "fail"} :
             DrainRefreshDone(d, net) => ShowsServer(drains[d].year)'
    ]_vars

\* C22 as amended: a drain that leaves its loop calls refreshData whatever
\* its snapshot and the outcomes of its creates were: the lists are seeded
\* from the cache of the drain's year, and the network read is issued
\* exactly when the browser is online at that moment.  A read that succeeds
\* overwrites the lists and the cache entries of the year with the server's
\* rows; a read that fails leaves them as they are.
C22_RefreshAfterEveryDrain ==
  [][ \A d \in DrainIds :
        /\ DrainFinish(d) =>
             /\ drains'[d].pc = IF online THEN "refresh" ELSE "idle"
             /\ donations' = Seeded("donation", drains[d].year)
             /\ expenses' = Seeded("expense", drains[d].year)
             /\ cache' = cache
        /\ DrainRefreshDone(d, "ok") => ShowsServer(drains[d].year)'
        /\ DrainRefreshDone(d, "fail") => UNCHANGED <<donations, expenses, cache>>
    ]_vars

\* C22 witness: a drain some of whose creates failed has left its loop,
\* with mutations of its snapshot still queued, and its network read is in
\* flight.
C22_Witness ==
  \E d \in DrainIds :
    /\ drains[d].pc = "refresh"
    /\ drains[d].status = "failed"
    /\ StillQueued(d) # {}
    /\ online

\* C23 as claimed: when an add made while online is confirmed by the network, the
\* cache entry of the record's year and type holds the record afterwards
\* (under the client's or the server's id).
C23_OnlineAddCached ==
  [][ online =>
        \A t \in RecordTypes, id \in ClientIds, now \in 0..MaxClock :
          HandleAdd(t, id, now, "ok") =>
            /\ cache'[CacheKey(selectedYear, t)] # Null
            /\ \E x \in cache'[CacheKey(selectedYear, t)][1] :
                 ApiData(x) = ApiData(NewRecord(t, id))
    ]_vars

\* C23 as amended: an add made while online, confirmed or not, leaves the
\* cache as it is; the cache entries of a year are written by the network
\* reads of that year, each of which stores the server's rows, the
\* confirmed records among them.
C23_CacheWrittenByReads ==
  [][ /\ online =>
           \A t \in RecordTypes, id \in ClientIds, now \in 0..MaxClock, net \in NetOutcomes :
             HandleAdd(t, id, now, net) => cache' = cache
      /\ \A y \in Years :
           RefreshDone(y, "ok") =>
             \A t \in RecordTypes : cache'[CacheKey(y, t)] = <<GetRecords(server, y, t)>>
    ]_vars

\* C23 witness: the server holds a confirmed donation of the selected
\* year, the browser is offline, nothing is queued or in progress, and the
\* list shows the cache entry of the key, which a read wrote before the
\* add and which does not contain the record.
C23_Witness ==
  /\ ~online
  /\ store = {}
  /\ pendingCount = 0
  /\ Running = {}
  /\ \A y \in Years : refreshing[y] = 0
  /\ cache[CacheKey(selectedYear, "donation")] = <<{}>>
  /\ donations = {}
  /\ \E r \in server : r.year = selectedYear /\ r.type = "donation"

\* C24: while the browser stays offline, a queued record that the lists
\* show is still shown after every step, a refresh from the cache and a
\* reload of the page included.
C24_QueuedStaysVisible ==
  [][ ~online /\ ~online' =>
        \A a \in store :
          a.payload \in donations \cup expenses => a.payload \in donations' \cup expenses'
    ]_vars

\* C25: getAll returns every queued action once, in ascending order of
\* timestamp, and two actions with the same timestamp in the order in
\* which they were enqueued (content numbers the user's adds).  A drain
\* that starts takes this list and leaves the queue as it is.
C25_GetAllOrder ==
  LET q == GetAll(store) IN
  /\ Len(q) = Cardinality(store)
  /\ {q[i] : i \in 1..Len(q)} = store
  /\ \A i, j \in 1..Len(q) :
       i < j => /\ q[i].timestamp <= q[j].timestamp
                /\ q[i].timestamp = q[j].timestamp =>
                     q[i].payload.content < q[j].payload.content

\* C26: the fetch listener leaves a request to a path under /api/, a
\* cross-origin request and a request that is not a GET to the browser: it
\* stores nothing and answers nothing from a cache.  No cache ever holds a
\* response for an API path, and once the service worker is activated the
\* cache named CACHE_VERSION is the only one.
C26_ApiNeverCached ==
  [][ /\ \A req \in FetchRequests, net \in {"ok", "notok", "fail"} :
           ( /\ \/ req.origin = "cross"
                \/ Len(req.path) >= 2 /\ req.path[1] = "api"
                \/ req.method # "GET"
             /\ FetchEvent(req, net) )
           => /\ swCaches' = swCaches
              /\ swLast'.from = "browser"
      /\ \A n \in DOMAIN swCaches' : swCaches'[n] \subseteq AssetPaths
      /\ swState' = "activated" => DOMAIN swCaches' = {CACHE_VERSION}
    ]_vars

\* C26 witness: the activated service worker has stored a bundle file it
\* fetched, its cache is the only one, and the last event, a same-origin
\* GET of an API path, was left to the browser.
C26_Witness ==
  /\ swState = "activated"
  /\ DOMAIN swCaches = {CACHE_VERSION}
  /\ <<"assets", "app.js">> \in swCaches[CACHE_VERSION]
  /\ swLast.origin = "same"
  /\ swLast.method = "GET"
  /\ swLast.path = <<"api", "donations">>
  /\ swLast.from = "browser"


\* ---------------------------------------------------------------- C27
\* The rows of the remote store created from the record the user entered in
\* the n-th add: the POST body carries the record's fields but not its id,
\* and the content of every add is distinct.
CreatedFrom(rows, n) == {r \in rows : r.content = n}

\* C27: across drains, connectivity events, overlapping 'online' events and
\* network failures, including a create whose response was lost, the remote
\* store holds at most one record created from each enqueued mutation.
C27_NoDuplicateCreation ==
  \A n \in 1..MaxAdds : Cardinality(CreatedFrom(server, n)) <= 1


\* ---------------------------------------------------------------- C28
\* The replay step of a drain when every create that is sent succeeds: the
\* add of a drain that runs while the browser is online is confirmed, and
\* the add of a drain that runs while it is offline takes the offline branch.
DrainReplayOk(d) ==
  \E now \in 0..MaxClock : DrainReplay(d, now, IF online THEN "ok" ELSE "none")

\* One session of the page with a network whose creates succeed:
\* connectivity, adds and drains.
NextLiveSession ==
  \/ GoOffline
  \/ GoOnline(MaxAppDrains)
  \/ \E t \in RecordTypes, id \in ClientIds, now \in 0..MaxClock, net \in NetOutcomes \cup {"none"} :
       HandleAdd(t, id, now, net)
  \/ \E d \in DrainIds : DrainReplayOk(d)
  \/ \E d \in DrainIds : DrainFinish(d)
  \/ \E d \in DrainIds, net \in {"ok", "fail"} : DrainRefreshDone(d, net)

\* The same with page reloads and the completion of the mount's read.
NextLive ==
  \/ NextLiveSession
  \/ \E on \in BOOLEAN : Restart(on)
  \/ \E y \in Years, net \in {"ok", "fail"} : RefreshDone(y, net)

\* A started processOfflineQueue runs on: each await settles (the network
\* and IndexedDB answer), so the loop, the count and the final read are
\* taken when they are due.  Connectivity events, the user's adds and page
\* reloads are up to the environment.
Fairness ==
  /\ WF_vars(\E d \in DrainIds : DrainReplayOk(d))
  /\ WF_vars(\E d \in DrainIds : DrainFinish(d))
  /\ WF_vars(\E d \in DrainIds, net \in {"ok", "fail"} : DrainRefreshDone(d, net))
  /\ WF_vars(\E y \in Years, net \in {"ok", "fail"} : RefreshDone(y, net))

SpecLive == Init /\ [][NextLive]_vars /\ Fairness

SpecLiveSession == Init /\ [][NextLiveSession]_vars /\ Fairness

\* C28: when the queue is non-empty, the browser is online, a user is signed
\* in and creates succeed, the queue eventually becomes empty unless the
\* browser goes offline first; this includes a page loaded while online with
\* mutations left in the queue.
C28_QueueEventuallyDrains ==
  (store # {} /\ online /\ user # NoUser) ~> (store = {} \/ ~online)


\* ---------------------------------------------------------------- C29
\* C29: whenever no refresh is in flight, the donation and expense lists
\* hold only records of the selected year; a refresh started for one year
\* that completes after the user selected another leaves no record of the
\* first year displayed.
C29_ListsMatchSelectedYear ==
  (\A y \in Years : refreshing[y] = 0) =>
     \A r \in donations \cup expenses : r.year = selectedYear


\* ---------------------------------------------------------------- C30
\* C30: whenever no drain is in progress (an add is one step), the
\* pendingCount shown by the UI equals count(), and count() equals the
\* number of mutations getAll returns.
C30_PendingBadgeAccurate ==
  (\A d \in DrainIds : drains[d].pc = "idle") =>
     /\ pendingCount = Count(store)
     /\ Count(store) = Len(GetAll(store))


\* C30 witness: no drain is in progress after a drain left a mutation whose
\* create reached the worker but was not confirmed; the badge shows the one
\* mutation that is queued, and the other record's create was drained.
C30_Witness ==
  /\ online
  /\ \A d \in DrainIds : drains[d].pc = "idle"
  /\ usedIds = ClientIds
  /\ pendingCount = 1
  /\ Len(GetAll(store)) = 1
  /\ \E a \in store : CreatedFrom(server, a.payload.content) # {}

====
